---- MODULE Spec2Model ----
(***************************************************************************)
(* Authentication / session-renewal protocol of the user-management        *)
(* system: the Token Issuer (backend/src/utils/jwt.js), the Authorization  *)
(* Gate (backend/src/middlewares/auth.js), the validation middleware       *)
(* (backend/src/middlewares/validate.js), the auth and user controllers    *)
(* (backend/src/controllers) behind their routes, the central error        *)
(* handler, and the Session Client (frontend/src/config/api.js,            *)
(* frontend/src/context/AuthContext.jsx).                                  *)
(*                                                                         *)
(* Strings that matter to the protocol (Authorization headers, tokens) are *)
(* sequences of symbols.  A symbol is either a run of characters           *)
(* ("Bearer", a blank, some other character) or the text of one signed     *)
(* JWT, kept as the record of what was signed and with which secret.       *)
(***************************************************************************)
EXTENDS Integers, Sequences, FiniteSets, TLC

\* ---------------------------------------------------------------- bounds
MaxUsers == 3     \* user ids are 1..MaxUsers; an id is never reused
MaxTicks == 1     \* number of clock advances in one behaviour
MaxReq   == 1     \* logical requests made through the Session Client
MaxConc  == 2     \* requests the Session Client has in flight at the same time
MaxSends == 3     \* transmissions of one request the model follows
MaxUses  == 3     \* times a caller presents one refresh token in a row

\* ------------------------------------------------------ program constants
AccessTTL  == 3600      \* expiresIn: '1h', in seconds
RefreshTTL == 604800    \* expiresIn: '7d', in seconds

Ids    == 1..MaxUsers
ReqIds == 1..MaxReq
ConcIds == 1..MaxConc
NoId   == 0
NoNbf  == -1            \* the payload has no nbf claim

JWT_ACCESS_SECRET  == "access-secret"
JWT_REFRESH_SECRET == "refresh-secret"
ADMIN_SETUP_KEY    == "setup-key"   \* process.env.ADMIN_SETUP_KEY
OTHER_SECRET       == "other-secret"
Secrets == {JWT_ACCESS_SECRET, JWT_REFRESH_SECRET, OTHER_SECRET}

\* ------------------------------------------------------------------ text
Chr(c) == [fmt |-> "chr", c |-> c]
BEARER == Chr("Bearer")
SP     == Chr(" ")
X      == Chr("x")
Null   == << >>         \* null, undefined and '' are all falsy

Truthy(s) == s # Null

\* String.prototype.startsWith for the one prefix the code asks about.
StartsWith(s, sym) == Len(s) > 0 /\ s[1] = sym

RECURSIVE SplitFrom(_, _, _, _)
\* The pieces of s[i..Len(s)] when cut at every sep; cur is the piece being read.
SplitFrom(s, sep, i, cur) ==
  IF i > Len(s) THEN <<cur>>
  ELSE IF s[i] = sep THEN <<cur>> \o SplitFrom(s, sep, i + 1, << >>)
  ELSE SplitFrom(s, sep, i + 1, Append(cur, s[i]))

\* String.prototype.split(sep)
Split(s, sep) == SplitFrom(s, sep, 1, << >>)

\* split(sep)[k] with a 0-based k; undefined (falsy) when there is no such piece
SplitAt(s, sep, k) ==
  LET parts == Split(s, sep) IN IF k + 1 <= Len(parts) THEN parts[k + 1] ELSE Null

\* ------------------------------------------------------------ form texts
\* The text fields of a request body are sequences of characters; Null is a
\* field the body does not have (undefined) or has empty.
Digits  == {"0", "1", "2", "3", "4", "5", "6", "7", "8", "9"}
Letters == {"A", "B", "C", "P", "a", "d", "i", "n", "o", "s", "u", "x"}

\* /^\d{lo,hi}$/
IsDigits(s, lo, hi) == Len(s) >= lo /\ Len(s) <= hi /\ \A k \in 1..Len(s) : s[k] \in Digits

\* /^[a-zA-Z\s]+$/
IsAlphaSpace(s) == Len(s) >= 1 /\ \A k \in 1..Len(s) : s[k] \in Letters \cup {" "}

\* /^(?=.*\d)/
HasDigit(s) == \E k \in 1..Len(s) : s[k] \in Digits

\* Joi's string().email(): one '@' after a non-empty local part, then a
\* domain of at least two non-empty labels.
IsEmail(s) ==
  LET parts == Split(s, "@") IN
  /\ Len(parts) = 2
  /\ Len(parts[1]) >= 1
  /\ LET labels == Split(parts[2], ".") IN
     Len(labels) >= 2 /\ \A k \in 1..Len(labels) : Len(labels[k]) >= 1

\* The email and phone of the i-th account.
Email(i) == <<"u", ToString(i), "@", "x", ".", "i", "o">>
Phone(i) == <<"9", "8", "7", "6", "5", "4", "3", "2", "1", ToString(i)>>

JSON      == "application/json"
MULTIPART == "multipart/form-data"

\* ---------------------------------------------------------- Token Issuer
\* jwt.sign({ id }, secret, { expiresIn }): HS256 is deterministic, the token
\* text is a function of the payload {id, iat, exp} and of the secret; iat is
\* the clock in whole seconds.
jwt_sign(id, secret, ttl, t) ==
  << [fmt |-> "jwt", key |-> secret, id |-> id, iat |-> t, exp |-> t + ttl, nbf |-> NoNbf] >>

GenerateAccessTokenWrongSecret(userId, t) == jwt_sign(userId, JWT_REFRESH_SECRET, AccessTTL, t)

generateAccessToken(userId, t)  == jwt_sign(userId, JWT_ACCESS_SECRET, AccessTTL, t)
GenerateRefreshTokenSharedSecret(userId, t) == jwt_sign(userId, JWT_ACCESS_SECRET, RefreshTTL, t)

generateRefreshToken(userId, t) == jwt_sign(userId, JWT_REFRESH_SECRET, RefreshTTL, t)

generateTokens(userId, t) ==
  [accessToken |-> generateAccessToken(userId, t),
   refreshToken |-> generateRefreshToken(userId, t)]

NoTokens == [accessToken |-> Null, refreshToken |-> Null]

\* jwt.verify(token, secret) at clock t: the name of the error thrown, or "ok"
\* with the decoded payload.  Checks run in the library's order: structure,
\* signature, nbf, exp.
jwt_verify(token, secret, t) ==
  IF ~(Len(token) = 1 /\ token[1].fmt = "jwt")
    THEN [name |-> "JsonWebTokenError", id |-> NoId]
  ELSE LET p == token[1] IN
    IF p.key # secret THEN [name |-> "JsonWebTokenError", id |-> NoId]
    ELSE IF p.nbf # NoNbf /\ p.nbf > t THEN [name |-> "NotBeforeError", id |-> NoId]
    ELSE IF t >= p.exp THEN [name |-> "TokenExpiredError", id |-> NoId]
    ELSE [name |-> "ok", id |-> p.id]

\* An Error thrown by the jwt utilities: a plain Error (name 'Error') that
\* carries only a message.
PlainError(msg) == [name |-> "Error", message |-> msg, statusCode |-> 0]
NoError == [name |-> "none", message |-> "", statusCode |-> 0]

ConflatingVerifyAccessToken(token, t) ==
  LET v == jwt_verify(token, JWT_ACCESS_SECRET, t) IN
  IF v.name = "ok" THEN [ok |-> TRUE, id |-> v.id, error |-> NoError]
  ELSE [ok |-> FALSE, id |-> NoId, error |-> PlainError("Invalid access token")]

verifyAccessToken(token, t) ==
  LET v == jwt_verify(token, JWT_ACCESS_SECRET, t) IN
  IF v.name = "ok" THEN [ok |-> TRUE, id |-> v.id, error |-> NoError]
  ELSE IF v.name = "TokenExpiredError"
    THEN [ok |-> FALSE, id |-> NoId, error |-> PlainError("Access token has expired")]
  ELSE IF v.name = "JsonWebTokenError"
    THEN [ok |-> FALSE, id |-> NoId, error |-> PlainError("Invalid access token")]
  ELSE [ok |-> FALSE, id |-> NoId, error |-> PlainError("Token verification failed")]

verifyRefreshToken(token, t) ==
  LET v == jwt_verify(token, JWT_REFRESH_SECRET, t) IN
  IF v.name = "ok" THEN [ok |-> TRUE, id |-> v.id, error |-> NoError]
  ELSE IF v.name = "TokenExpiredError"
    THEN [ok |-> FALSE, id |-> NoId, error |-> PlainError("Refresh token has expired")]
  ELSE IF v.name = "JsonWebTokenError"
    THEN [ok |-> FALSE, id |-> NoId, error |-> PlainError("Invalid refresh token")]
  ELSE [ok |-> FALSE, id |-> NoId, error |-> PlainError("Token verification failed")]

\* ------------------------------------------------------------ User Store
\* The users collection: for every id, "absent" or the role of the record.
Roles == {"user", "admin"}
findByIdIgnoringStore(db, id) == IF id \in Ids THEN id ELSE NoId

\* User.findById(id): the record, or null (NoId)
findById(db, id) == IF id \in Ids /\ db[id] # "absent" THEN id ELSE NoId

\* The email and phone of the record with a given id; NoContact for no record.
NoContact == [email |-> Null, phone |-> Null]

\* User.findOne({ field: value }): some record whose field has the value, or
\* null (NoId).
findOne(db, cts, field, value) ==
  IF \E i \in Ids : db[i] # "absent" /\ cts[i][field] = value
    THEN CHOOSE i \in Ids : db[i] # "absent" /\ cts[i][field] = value
    ELSE NoId

\* ---------------------------------------------------- Authorization Gate
\* What protect does with a request: the response it sends (status 0 when it
\* calls next() instead), the user attached to req.user, and which of its
\* steps it took (verified: verifyAccessToken was called, queried:
\* User.findById was called).
GateResult(status, message, user, verified, queried) ==
  [status |-> status, message |-> message, user |-> user,
   next |-> (status = 0), verified |-> verified, queried |-> queried]

protect(authorization, t, db) ==
  LET token == IF Truthy(authorization) /\ StartsWith(authorization, BEARER)
                 THEN SplitAt(authorization, SP, 1)
                 ELSE Null
  IN
  IF ~Truthy(token)
    THEN GateResult(401, "Not authorized, no token provided", NoId, FALSE, FALSE)
  ELSE LET decoded == verifyAccessToken(token, t) IN
    IF ~decoded.ok
      THEN GateResult(401, decoded.error.message, NoId, TRUE, FALSE)
    ELSE LET user == findById(db, decoded.id) IN
      IF user = NoId
        THEN GateResult(401, "User not found", NoId, TRUE, TRUE)
        ELSE GateResult(0, "", user, TRUE, TRUE)

AdminOnlyAnyIdentity(user, db) ==
  IF user # NoId
    THEN [status |-> 0, message |-> ""]
    ELSE [status |-> 403, message |-> "Access denied. Admin privileges required"]

adminOnly(user, db) ==
  IF user # NoId /\ db[user] = "admin"
    THEN [status |-> 0, message |-> ""]
    ELSE [status |-> 403, message |-> "Access denied. Admin privileges required"]

\* ---------------------------------------------------------- errorHandler
\* Only the branches an error of the auth core can take: the JWT names, and
\* the default that uses err.statusCode or 500.
errorHandler(err) ==
  IF err.name = "JsonWebTokenError" THEN [status |-> 401, message |-> "Invalid token"]
  ELSE IF err.name = "TokenExpiredError" THEN [status |-> 401, message |-> "Token has expired"]
  ELSE [status |-> IF err.statusCode # 0 THEN err.statusCode ELSE 500,
        message |-> IF err.message # "" THEN err.message ELSE "Internal Server Error"]

\* -------------------------------------------------------- auth controller
Response(status, message, tokens, user) ==
  [status |-> status, message |-> message, tokens |-> tokens, user |-> user]

\* validate(refreshTokenSchema): refreshToken is a required, non-empty string.
validateRefresh(body) ==
  IF Truthy(body) THEN [status |-> 0] ELSE [status |-> 400]

RefreshTokenFreshOnly(body, t, db) ==
  IF validateRefresh(body).status # 0
    THEN Response(400, "Validation failed", NoTokens, NoId)
  ELSE LET decoded == verifyRefreshToken(body, t) IN
    IF ~decoded.ok \/ body[1].iat # t
      THEN Response(401, "Invalid refresh token", NoTokens, NoId)
    ELSE IF findById(db, decoded.id) = NoId
      THEN Response(404, "User not found", NoTokens, NoId)
      ELSE Response(200, "Tokens refreshed successfully", generateTokens(decoded.id, t), NoId)

\* POST /api/auth/refresh: validate(refreshTokenSchema), then refreshToken;
\* an error thrown by verifyRefreshToken goes through next(error) to
\* errorHandler.
refreshToken(body, t, db) ==
  IF validateRefresh(body).status # 0
    THEN Response(400, "Validation failed", NoTokens, NoId)
  ELSE LET decoded == verifyRefreshToken(body, t) IN
    IF ~decoded.ok
      THEN LET e == errorHandler(decoded.error) IN Response(e.status, e.message, NoTokens, NoId)
    ELSE IF findById(db, decoded.id) = NoId
      THEN Response(404, "User not found", NoTokens, NoId)
      ELSE Response(200, "Tokens refreshed successfully", generateTokens(decoded.id, t), NoId)

\* POST /api/auth/login for the record `user` (NoId when no record matches
\* the email or phone) and the outcome of comparePassword.
login(user, passwordOk, t, db) ==
  IF findById(db, user) = NoId \/ ~passwordOk
    THEN Response(401, "Invalid credentials", NoTokens, NoId)
    ELSE Response(200, "Login successful", generateTokens(user, t), user)

\* POST /api/auth/logout (the controller named logout): always 200, the
\* tokens are dropped by the client.
logoutEndpoint(body) == Response(200, "Logged out successfully", NoTokens, NoId)

\* GET /api/users/profile/me: protect, then getMyProfile.
profileRoute(authorization, t, db) ==
  LET g == protect(authorization, t, db) IN
  IF g.next THEN Response(200, "Profile retrieved successfully", NoTokens, g.user)
            ELSE Response(g.status, g.message, NoTokens, NoId)

DeleteUserUnchecked(requester, target, db) ==
  IF findById(db, target) = NoId THEN [status |-> 404, db |-> db]
  ELSE [status |-> 200, db |-> [db EXCEPT ![target] = "absent"]]

\* deleteUser, reached after protect attached `requester`: the store after it
\* and the status it answers.
deleteUser(requester, target, db) ==
  IF findById(db, target) = NoId THEN [status |-> 404, db |-> db]
  ELSE IF requester # target /\ db[requester] # "admin" THEN [status |-> 403, db |-> db]
  ELSE [status |-> 200, db |-> [db EXCEPT ![target] = "absent"]]

\* ------------------------------------------------------------- validate
\* validate(schema): the status the middleware answers, 0 when it calls
\* next(); `valid` is what schema.validate finds for the data of the request.
\* A multipart request is passed on without being looked at.
validate(valid, ctype) ==
  IF ctype = MULTIPART THEN 0
  ELSE IF valid THEN 0 ELSE 400

\* registerSchema, on the fields the model keeps: name, email, phone,
\* password, and state for the required fields without a pattern (state,
\* city, country); pincode, address and profile_image are valid in every
\* request of the model.
registerSchema(data) ==
  /\ Len(data.name) >= 3 /\ IsAlphaSpace(data.name)
  /\ IsEmail(data.email)
  /\ IsDigits(data.phone, 10, 15)
  /\ Len(data.password) >= 6 /\ HasDigit(data.password)
  /\ Truthy(data.state)

\* updateUserSchema: every field is optional; the phone, when given, is 10
\* to 15 digits.
updateUserSchema(data) == Truthy(data.phone) => IsDigits(data.phone, 10, 15)

\* userIdSchema: the id is a well-formed ObjectId.
userIdSchema(data) == data.id \in Ids

\* searchSchema: every field is optional, and the model's requests carry no
\* query.
searchSchema(data) == data.query = Null

\* ------------------------------------------------------- route results
\* What a route did with a request: the response (status, message), whether
\* the controller was entered, the store after it (roles, contacts, ids
\* handed out), the data of the response (tokens, user, listed users), and
\* the stages of the route's stack that were entered, in order.
RouteResult(status, message, ran, db, cts, n, tokens, u, listed) ==
  [status |-> status, message |-> message, ran |-> ran, db |-> db, cts |-> cts, n |-> n,
   tokens |-> tokens, user |-> u, listed |-> listed, stages |-> << >>]

\* The result of a route whose stack was entered up to the last of `stages`.
Via(stages, r) == [r EXCEPT !.stages = stages]

\* A response sent before the controller, or by a controller that changed
\* nothing.
Refused(status, message, ran, db, cts, n) ==
  RouteResult(status, message, ran, db, cts, n, NoTokens, NoId, {})

\* ---------------------------------------------------- register controller
RegisterCheckingEmailOnly(body, t, db, cts, n) ==
  IF findOne(db, cts, "email", body.email) # NoId
    THEN Refused(409, "Email already exists", TRUE, db, cts, n)
  ELSE LET id == n + 1 IN
    RouteResult(201, "User registered successfully", TRUE,
                [db EXCEPT ![id] = "user"],
                [cts EXCEPT ![id] = [email |-> body.email, phone |-> body.phone]],
                id, generateTokens(id, t), id, {})

register(body, t, db, cts, n) ==
  IF findOne(db, cts, "email", body.email) # NoId
    THEN Refused(409, "Email already exists", TRUE, db, cts, n)
  ELSE IF findOne(db, cts, "phone", body.phone) # NoId
    THEN Refused(409, "Phone number already exists", TRUE, db, cts, n)
  ELSE LET id == n + 1 IN
    RouteResult(201, "User registered successfully", TRUE,
                [db EXCEPT ![id] = "user"],
                [cts EXCEPT ![id] = [email |-> body.email, phone |-> body.phone]],
                id, generateTokens(id, t), id, {})

\* POST /api/auth/register: uploadProfileImage (the request has no file
\* part, so it only parses a multipart body), validate(registerSchema),
\* register.
registerRoute(req, t, db, cts, n) ==
  IF validate(registerSchema(req.body), req.ctype) # 0
    THEN Via(<<"uploadProfileImage", "validate">>,
             Refused(400, "Validation failed", FALSE, db, cts, n))
    ELSE Via(<<"uploadProfileImage", "validate", "register">>,
             register(req.body, t, db, cts, n))

\* ------------------------------------------------------- user controller
\* getAllUsers with an empty query: every record.
getAllUsers(db, cts, n) ==
  RouteResult(200, "Users retrieved successfully", TRUE, db, cts, n, NoTokens, NoId,
              {i \in Ids : db[i] # "absent"})

\* User.findByIdAndUpdate(id, { role }) of promoteToAdmin and demoteFromAdmin.
setRole(target, role, message, db, cts, n) ==
  IF findById(db, target) = NoId
    THEN Refused(404, "User not found", TRUE, db, cts, n)
    ELSE RouteResult(200, message, TRUE, [db EXCEPT ![target] = role], cts, n,
                     NoTokens, target, {})

promoteToAdmin(target, db, cts, n) ==
  setRole(target, "admin", "User promoted to admin successfully", db, cts, n)

demoteFromAdmin(target, db, cts, n) ==
  setRole(target, "user", "Admin privileges removed successfully", db, cts, n)

\* updateUser, on the phone: the record is saved when the body has a phone
\* that differs from the stored one.
updateUser(target, body, db, cts, n) ==
  IF findById(db, target) = NoId
    THEN Refused(404, "User not found", TRUE, db, cts, n)
  ELSE IF Truthy(body.phone) /\ cts[target].phone # body.phone
    THEN RouteResult(200, "User updated successfully", TRUE, db,
                     [cts EXCEPT ![target].phone = body.phone], n, NoTokens, target, {})
    ELSE RouteResult(200, "User data unchanged", TRUE, db, cts, n, NoTokens, target, {})

\* ----------------------------------------------------------- user routes
\* GET /api/users, PATCH /api/users/:id/promote-admin and
\* PATCH /api/users/:id/demote-admin: protect, adminOnly, validate, handler.
adminRoute(op, authorization, target, t, db, cts, n) ==
  LET g == protect(authorization, t, db) IN
  IF ~g.next THEN Via(<<"protect">>, Refused(g.status, g.message, FALSE, db, cts, n))
  ELSE LET a == adminOnly(g.user, db) IN
    IF a.status # 0
      THEN Via(<<"protect", "adminOnly">>, Refused(a.status, a.message, FALSE, db, cts, n))
    ELSE IF op = "list" THEN
      IF validate(searchSchema([query |-> Null]), JSON) # 0
        THEN Via(<<"protect", "adminOnly", "validate">>,
                 Refused(400, "Validation failed", FALSE, db, cts, n))
        ELSE Via(<<"protect", "adminOnly", "validate", "getAllUsers">>,
                 getAllUsers(db, cts, n))
    ELSE IF validate(userIdSchema([id |-> target]), JSON) # 0
      THEN Via(<<"protect", "adminOnly", "validate">>,
               Refused(400, "Validation failed", FALSE, db, cts, n))
    ELSE IF op = "promote"
      THEN Via(<<"protect", "adminOnly", "validate", "promoteToAdmin">>,
               promoteToAdmin(target, db, cts, n))
      ELSE Via(<<"protect", "adminOnly", "validate", "demoteFromAdmin">>,
               demoteFromAdmin(target, db, cts, n))

UpdateRouteGateLast(authorization, target, req, t, db, cts, n) ==
  IF validate(updateUserSchema(req.body), req.ctype) # 0
    THEN Via(<<"uploadProfileImage", "validate">>,
             Refused(400, "Validation failed", FALSE, db, cts, n))
  ELSE LET g == protect(authorization, t, db) IN
    IF ~g.next
      THEN Via(<<"uploadProfileImage", "validate", "protect">>,
               Refused(g.status, g.message, FALSE, db, cts, n))
      ELSE Via(<<"uploadProfileImage", "validate", "protect", "updateUser">>,
               updateUser(target, req.body, db, cts, n))

\* PUT /api/users/:id: protect, uploadProfileImage, validate(updateUserSchema),
\* updateUser.
updateRoute(authorization, target, req, t, db, cts, n) ==
  LET g == protect(authorization, t, db) IN
  IF ~g.next THEN Via(<<"protect">>, Refused(g.status, g.message, FALSE, db, cts, n))
  ELSE IF validate(updateUserSchema(req.body), req.ctype) # 0
    THEN Via(<<"protect", "uploadProfileImage", "validate">>,
             Refused(400, "Validation failed", FALSE, db, cts, n))
    ELSE Via(<<"protect", "uploadProfileImage", "validate", "updateUser">>,
             updateUser(target, req.body, db, cts, n))

\* DELETE /api/users/:id: protect, validate(userIdSchema), deleteUser.
deleteRoute(authorization, target, t, db, cts, n) ==
  LET g == protect(authorization, t, db) IN
  IF ~g.next THEN Via(<<"protect">>, Refused(g.status, g.message, FALSE, db, cts, n))
  ELSE IF validate(userIdSchema([id |-> target]), JSON) # 0
    THEN Via(<<"protect", "validate">>, Refused(400, "Validation failed", FALSE, db, cts, n))
  ELSE LET d == deleteUser(g.user, target, db) IN
    Via(<<"protect", "validate", "deleteUser">>,
        IF d.status = 200
          THEN RouteResult(200, "User deleted successfully", TRUE, d.db,
                           [cts EXCEPT ![target] = NoContact], n, NoTokens, NoId, {})
        ELSE Refused(d.status,
                     IF d.status = 404 THEN "User not found"
                                       ELSE "Access denied. You can only delete your own account",
                     TRUE, db, cts, n))

\* getUserById
getUserById(target, db, cts, n) ==
  IF findById(db, target) = NoId
    THEN Refused(404, "User not found", TRUE, db, cts, n)
    ELSE RouteResult(200, "User retrieved successfully", TRUE, db, cts, n, NoTokens, target, {})

\* getMyProfile: answers with req.user.
getMyProfile(requester, db, cts, n) ==
  RouteResult(200, "Profile retrieved successfully", TRUE, db, cts, n, NoTokens, requester, {})

SetupAdminKeepingRole(requester, setupKey, db, cts, n) ==
  IF setupKey # ADMIN_SETUP_KEY
    THEN Refused(401, "Invalid admin setup key", TRUE, db, cts, n)
    ELSE RouteResult(200, "You are now an admin", TRUE, db, cts, n, NoTokens, requester, {})

\* setupAdmin: with the setup key, User.findByIdAndUpdate(req.user._id,
\* { role: 'admin' }).
setupAdmin(requester, setupKey, db, cts, n) ==
  IF setupKey # ADMIN_SETUP_KEY
    THEN Refused(401, "Invalid admin setup key", TRUE, db, cts, n)
    ELSE RouteResult(200, "You are now an admin", TRUE, [db EXCEPT ![requester] = "admin"],
                     cts, n, NoTokens, requester, {})

\* GET /api/users/profile/me: protect, getMyProfile.
\* GET /api/users/:id: protect, validate(userIdSchema), getUserById.
\* POST /api/users/setup-admin: protect, setupAdmin.
userRoute(op, authorization, target, setupKey, t, db, cts, n) ==
  LET g == protect(authorization, t, db) IN
  IF ~g.next THEN Via(<<"protect">>, Refused(g.status, g.message, FALSE, db, cts, n))
  ELSE IF op = "profile"
    THEN Via(<<"protect", "getMyProfile">>, getMyProfile(g.user, db, cts, n))
  ELSE IF op = "setup"
    THEN Via(<<"protect", "setupAdmin">>, setupAdmin(g.user, setupKey, db, cts, n))
  ELSE IF validate(userIdSchema([id |-> target]), JSON) # 0
    THEN Via(<<"protect", "validate">>, Refused(400, "Validation failed", FALSE, db, cts, n))
    ELSE Via(<<"protect", "validate", "getUserById">>, getUserById(target, db, cts, n))

\* ================================================================= state
VARIABLES
  now,        \* server clock, whole seconds
  ticks,      \* clock advances so far
  users,      \* the users collection: id -> "absent" | role
  contacts,   \* the users collection: id -> the email and phone of the record
  created,    \* number of records ever created (the ids handed out so far)
  ls,         \* the browser's localStorage: accessToken, refreshToken, userId
  location,   \* window.location.href
  reqs,       \* the requests made through the api instance
  user,       \* AuthContext's in-memory user (useState), NoId for null
  call        \* the last request an arbitrary HTTP caller made to the server

vars == <<now, ticks, users, contacts, created, ls, location, reqs, user, call>>
serverVars == <<now, ticks, users, contacts, created>>
clientVars == <<ls, location, reqs, user>>

EmptyLS == [accessToken |-> Null, refreshToken |-> Null, userId |-> NoId]
NoResp  == Response(-1, "", NoTokens, NoId)
NoCred  == [user |-> NoId, ok |-> FALSE]
NoErr   == [of |-> "none", status |-> -1, attempt |-> 0]
NoCall  == [op |-> "none"]

\* The body of a registration: the fields of the form.
Body(name, email, phone, password, state) ==
  [name |-> name, email |-> email, phone |-> phone, password |-> password, state |-> state]

A_NAME     == <<"A", "n", "n">>
A_PASSWORD == <<"P", "a", "s", "s", "1", "2", "3">>
A_STATE    == <<"C", "A">>

NoForm == [ctype |-> "none", body |-> Body(Null, Null, Null, Null, Null)]

IdleReq ==
  [pc |-> "idle", kind |-> "none", cred |-> NoCred,
   form |-> NoForm,         \* the registration form of a register request
   headers |-> Null,        \* config.headers.Authorization of the last transmission
   retry |-> FALSE,         \* config._retry
   resp |-> NoResp,         \* the response on its way to the client
   sends |-> 0,             \* transmissions of the request so far
   refreshes |-> 0,         \* refresh exchanges sent for this request
   rt |-> Null,             \* refresh token presented in the exchange
   exch |-> NoTokens,       \* pair returned by the exchange
   outcome |-> "none",      \* "resolved" | "rejected": what the caller gets
   error |-> NoErr]         \* the error the promise rejected with

\* The populated store of populate-users.js, reduced to ids and roles: a
\* regular user and an admin; the other ids are not handed out yet.
InitUsers == [i \in Ids |-> IF i = 1 THEN "user" ELSE IF i = 2 THEN "admin" ELSE "absent"]

InitContacts ==
  [i \in Ids |-> IF InitUsers[i] = "absent" THEN NoContact
                 ELSE [email |-> Email(i), phone |-> Phone(i)]]

InitServer ==
  /\ now = 0
  /\ ticks = 0
  /\ users = InitUsers
  /\ contacts = InitContacts
  /\ created = Cardinality({i \in Ids : InitUsers[i] # "absent"})

\* The browser starts logged out, or with the session a login of user 1 left
\* in localStorage.
Init ==
  /\ InitServer
  /\ ls \in {EmptyLS,
             [accessToken |-> generateAccessToken(1, 0),
              refreshToken |-> generateRefreshToken(1, 0), userId |-> 1]}
  /\ location = "/profile"
  /\ reqs = [r \in ReqIds |-> IdleReq]
  /\ user = NoId
  /\ call = NoCall

\* ============================================================ the server
\* Time passes: a second, an access-token lifetime or a refresh-token lifetime.
Tick ==
  /\ ticks < MaxTicks
  /\ \E d \in {1, AccessTTL, RefreshTTL} : now' = now + d
  /\ ticks' = ticks + 1
  /\ UNCHANGED <<users, contacts, created, clientVars, call>>

\* DELETE /api/users/:id made by another authenticated client.
OtherClientDelete ==
  /\ \E requester \in Ids, target \in Ids :
       /\ users[requester] # "absent"
       /\ deleteUser(requester, target, users).status = 200
       /\ users' = deleteUser(requester, target, users).db
       /\ contacts' = [contacts EXCEPT ![target] = NoContact]
  /\ UNCHANGED <<now, ticks, created, clientVars, call>>

\* ==================================================== the Session Client
KeepSession(store) == store

ClearAccessOnly(store) == [store EXCEPT !.accessToken = Null, !.userId = NoId]

\* localStorage.clear()
clear(store) == EmptyLS

BrokenSetItems(store, tokens) == [store EXCEPT !.refreshToken = tokens.refreshToken]

SetItemsLost(store, tokens) == store

\* localStorage.setItem('accessToken', ..); localStorage.setItem('refreshToken', ..)
setItems(store, tokens) ==
  [store EXCEPT !.accessToken = tokens.accessToken, !.refreshToken = tokens.refreshToken]

SetSessionMerging(store, tokens, u) ==
  [store EXCEPT !.accessToken = tokens.accessToken, !.refreshToken = tokens.refreshToken]

\* The three setItem calls of AuthContext.login and AuthContext.register.
setSession(store, tokens, u) ==
  [store EXCEPT !.accessToken = tokens.accessToken, !.refreshToken = tokens.refreshToken,
                !.userId = u]

Bearer(accessToken) == <<BEARER, SP>> \o accessToken

\* The request interceptor: the Authorization header the request leaves with.
requestInterceptor(headers, store) ==
  IF Truthy(store.accessToken) THEN Bearer(store.accessToken) ELSE headers

AlwaysRefresh(status, retry) == status = 401

\* error.response?.status === 401 && !originalRequest._retry
shouldRefresh(status, retry) == status = 401 /\ ~retry

NeverMissing(token) == FALSE

\* !refreshToken
missing(token) == ~Truthy(token)

IsSuccess(status) == status >= 200 /\ status < 300

\* The forms AuthContext.register posts: always multipart, with the email of
\* an existing account or a new one.
ClientForms ==
  { [ctype |-> MULTIPART, body |-> Body(A_NAME, e, Phone(MaxUsers), A_PASSWORD, A_STATE)] :
      e \in {Email(1), Email(MaxUsers)} }

\* api.post / api.get called by the application: the request interceptor
\* runs and the request leaves.  The request is a call to a protected route,
\* a login or a registration; a login that is refused is answered the same
\* way whatever the identifier, so one refused credential stands for all of
\* them.
Send(r) ==
  /\ reqs[r].pc = "idle"
  /\ \A q \in DOMAIN reqs : q < r => reqs[q].pc # "idle"
  /\ \E kind \in {"api", "login", "register"}, u \in Ids, ok \in BOOLEAN,
        form \in ClientForms \cup {NoForm} :
       /\ kind # "login" => (u = 1 /\ ok)
       /\ ~ok => u = 1
       /\ kind = "register" <=> form # NoForm
       /\ LET h == requestInterceptor(Null, ls) IN
          reqs' = [reqs EXCEPT ![r] =
                     [@ EXCEPT !.pc = "sent", !.kind = kind,
                               !.cred = IF kind = "login" THEN [user |-> u, ok |-> ok] ELSE NoCred,
                               !.form = form, !.headers = h, !.sends = 1]]
  /\ UNCHANGED <<serverVars, ls, location, user, call>>

\* The server answers the request with the state it has at that moment; a
\* registration it accepts adds a record to the store.
Serve(r) ==
  /\ reqs[r].pc = "sent"
  /\ LET q == reqs[r] IN
     IF q.kind = "register" THEN
       LET out == registerRoute(q.form, now, users, contacts, created) IN
       /\ out.status = 201 => created < MaxUsers
       /\ reqs' = [reqs EXCEPT ![r] =
                     [@ EXCEPT !.pc = "replied",
                               !.resp = Response(out.status, out.message, out.tokens, out.user)]]
       /\ users' = out.db
       /\ contacts' = out.cts
       /\ created' = out.n
       /\ UNCHANGED <<now, ticks>>
     ELSE
       LET resp == IF q.kind = "login" THEN login(q.cred.user, q.cred.ok, now, users)
                                       ELSE profileRoute(q.headers, now, users)
       IN
       /\ reqs' = [reqs EXCEPT ![r] = [@ EXCEPT !.pc = "replied", !.resp = resp]]
       /\ UNCHANGED serverVars
  /\ UNCHANGED <<ls, location, user, call>>

\* The request fails without a response (error.response is undefined).
NetworkError(r) ==
  /\ reqs[r].pc \in {"sent", "refreshing"}
  /\ reqs' = [reqs EXCEPT ![r] =
                [@ EXCEPT !.pc = IF @ = "sent" THEN "replied" ELSE "refreshed",
                          !.resp = Response(0, "Network Error", NoTokens, NoId)]]
  /\ UNCHANGED <<serverVars, ls, location, user, call>>

\* The promise of the request settles; the config object, the responses and
\* the tokens they carried are dropped with it.
Settled(q, outcome, error) ==
  [IdleReq EXCEPT !.pc = "done", !.kind = q.kind, !.retry = q.retry, !.sends = q.sends,
                  !.refreshes = q.refreshes, !.outcome = outcome, !.error = error]

Resolved(q) == Settled(q, "resolved", NoErr)

Rejected(q, of, status) ==
  Settled(q, "rejected", [of |-> of, status |-> status, attempt |-> q.sends])

\* The response of the request reaches the browser: the response interceptor
\* runs, then the caller's continuation (AuthContext.login and
\* AuthContext.register store the session of the response and set the user).
Receive(r) ==
  /\ reqs[r].pc = "replied"
  /\ LET q == reqs[r]
         status == q.resp.status
     IN
     IF IsSuccess(status) THEN
       /\ reqs' = [reqs EXCEPT ![r] = Resolved(q)]
       /\ ls' = IF q.kind \in {"login", "register"}
                  THEN setSession(ls, q.resp.tokens, q.resp.user)
                  ELSE ls
       /\ user' = IF q.kind \in {"login", "register"} THEN q.resp.user ELSE user
       /\ UNCHANGED location
     ELSE IF shouldRefresh(status, q.retry) THEN
       LET refreshTok == ls.refreshToken IN
       IF missing(refreshTok) THEN
         /\ ls' = clear(ls)
         /\ location' = "/login"
         /\ reqs' = [reqs EXCEPT ![r] = Rejected([q EXCEPT !.retry = TRUE], "request", status)]
         /\ UNCHANGED user
       ELSE
         /\ reqs' = [reqs EXCEPT ![r] =
                       [q EXCEPT !.retry = TRUE, !.pc = "refreshing", !.rt = refreshTok,
                                 !.refreshes = @ + 1, !.resp = NoResp]]
         /\ UNCHANGED <<ls, location, user>>
     ELSE
       /\ reqs' = [reqs EXCEPT ![r] = Rejected(q, "request", status)]
       /\ UNCHANGED <<ls, location, user>>
  /\ UNCHANGED <<serverVars, call>>

\* The server answers the refresh exchange (sent with plain axios, outside
\* the interceptors).
RefreshServe(r) ==
  /\ reqs[r].pc = "refreshing"
  /\ reqs' = [reqs EXCEPT ![r] =
                [@ EXCEPT !.pc = "refreshed", !.resp = refreshToken(reqs[r].rt, now, users)]]
  /\ UNCHANGED <<serverVars, ls, location, user, call>>

\* The awaited exchange settles: store the pair, re-attach, resubmit through
\* api (so through the request interceptor); or the catch block.
RefreshReceive(r) ==
  /\ reqs[r].pc = "refreshed"
  /\ LET q == reqs[r]
         status == q.resp.status
     IN
     IF IsSuccess(status) THEN
       LET tokens == q.resp.tokens
           store  == setItems(ls, tokens)
           h      == requestInterceptor(Bearer(tokens.accessToken), store)
       IN
       /\ q.sends < MaxSends
       /\ ls' = store
       /\ reqs' = [reqs EXCEPT ![r] =
                     [q EXCEPT !.pc = "sent", !.headers = h, !.sends = @ + 1,
                               !.exch = tokens, !.resp = NoResp]]
       /\ UNCHANGED location
     ELSE
       /\ ls' = clear(ls)
       /\ location' = "/login"
       /\ reqs' = [reqs EXCEPT ![r] = Rejected(q, "refresh", status)]
  /\ UNCHANGED <<serverVars, user, call>>

LogoutKeepingUser ==
  /\ ls' = clear(ls)
  /\ UNCHANGED <<serverVars, location, reqs, user, call>>

\* AuthContext.logout: localStorage.clear(); setUser(null)
logout ==
  /\ ls' = clear(ls)
  /\ user' = NoId
  /\ UNCHANGED <<serverVars, location, reqs, call>>

Next ==
  \/ Tick
  \/ OtherClientDelete
  \/ logout
  \/ \E r \in ReqIds : Send(r)
  \/ \E r \in ReqIds : Serve(r)
  \/ \E r \in ReqIds : NetworkError(r)
  \/ \E r \in ReqIds : Receive(r)
  \/ \E r \in ReqIds : RefreshServe(r)
  \/ \E r \in ReqIds : RefreshReceive(r)

Spec == Init /\ [][Next]_vars

\* ------------------------------------------- several requests in flight
\* The same browser with several calls of the application outstanding at
\* once: every response and every refresh exchange is its own task of the
\* event loop, so the handlers of different requests interleave in any order
\* while each handler runs to its next await without interruption.
InitConc ==
  /\ InitServer
  /\ ls \in {EmptyLS,
             [accessToken |-> generateAccessToken(1, 0),
              refreshToken |-> generateRefreshToken(1, 0), userId |-> 1]}
  /\ location = "/profile"
  /\ reqs = [r \in ConcIds |-> IdleReq]
  /\ user = NoId
  /\ call = NoCall

NextConc ==
  \/ Tick
  \/ OtherClientDelete
  \/ logout
  \/ \E r \in ConcIds : Send(r)
  \/ \E r \in ConcIds : Serve(r)
  \/ \E r \in ConcIds : NetworkError(r)
  \/ \E r \in ConcIds : Receive(r)
  \/ \E r \in ConcIds : RefreshServe(r)
  \/ \E r \in ConcIds : RefreshReceive(r)

SpecConc == InitConc /\ [][NextConc]_vars

\* ======================================= the server under arbitrary callers
\* Any HTTP client can call the endpoints with any header or body, one
\* request at a time.  `call` keeps the request being answered: the input,
\* the clock and the store it was served with, the answer, and for a refresh
\* the pair whose refresh token the caller presented (NoTokens when the token
\* is not one it was handed) and how many times in a row the caller has
\* presented that token.  The caller keeps a pair it was handed while time
\* passes and the store changes.
Call(op, in, out, from) ==
  [op |-> op, in |-> in, t |-> now, db |-> users, out |-> out, from |-> from, nth |-> 1]

\* The instants at which a token presented now can have been issued.
IssueTimes == {t \in {0, 1, AccessTTL, RefreshTTL, now} : t <= now}

\* Token texts a caller can present: signed with either server secret or with
\* a key of its own, for any id, with or without a not-before claim.
TokenInputs ==
  { << [fmt |-> "jwt", key |-> k, id |-> i, iat |-> t,
        exp |-> t + (IF k = JWT_REFRESH_SECRET THEN RefreshTTL ELSE AccessTTL),
        nbf |-> n] >> :
      k \in Secrets, i \in Ids, t \in IssueTimes, n \in {NoNbf, now + 1} }

\* Authorization headers a caller can send; Null is the absent header.
HeaderInputs ==
  { pre \o sep \o tok \o post :
      pre \in {<< >>, <<BEARER>>, <<BEARER, X>>, <<X>>, <<Chr("Basic")>>},
      sep \in {<< >>, <<SP>>, <<SP, SP>>},
      tok \in TokenInputs \cup {<< >>, <<X>>},
      post \in {<< >>, <<SP, X>>} }

InitServerOnly ==
  /\ InitServer
  /\ ls = EmptyLS
  /\ location = "/login"
  /\ reqs = [r \in ReqIds |-> IdleReq]
  /\ user = NoId
  /\ call = NoCall

HoldsPair == call.op \in {"login", "refresh"} /\ call.out.status = 200

LoginCallLockingOut ==
  /\ call = NoCall
  /\ \E u \in Ids, ok \in BOOLEAN :
       /\ call' = Call("login", <<u, ok>>, login(u, ok, now, users), NoTokens)
       /\ users' = IF ok THEN users ELSE [users EXCEPT ![u] = "absent"]
  /\ UNCHANGED <<now, ticks, contacts, created, clientVars>>

LoginCall ==
  /\ call = NoCall
  /\ \E u \in Ids, ok \in BOOLEAN :
       call' = Call("login", <<u, ok>>, login(u, ok, now, users), NoTokens)
  /\ UNCHANGED <<serverVars, clientVars>>

\* POST /api/auth/logout with any body.
LogoutCall ==
  /\ call = NoCall
  /\ \E body \in {Null, <<X>>} :
       call' = Call("logout", body, logoutEndpoint(body), NoTokens)
  /\ UNCHANGED <<serverVars, clientVars>>

\* A request to an admin-only route with a header of the Bearer form: what
\* protect followed by adminOnly does with it.
AdminOnlyCall ==
  /\ call = NoCall
  /\ \E tok \in TokenInputs :
       LET g == protect(Bearer(tok), now, users)
           a == adminOnly(g.user, users)
       IN call' = Call("adminOnly", Bearer(tok),
                       IF g.next THEN [status |-> a.status, message |-> a.message, user |-> g.user]
                                 ELSE [status |-> g.status, message |-> g.message, user |-> NoId],
                       NoTokens)
  /\ UNCHANGED <<serverVars, clientVars>>

\* The caller presents the refresh token of the pair its last login or
\* refresh returned.
RefreshCall ==
  /\ HoldsPair
  /\ LET body == call.out.tokens.refreshToken IN
     call' = Call("refresh", body, refreshToken(body, now, users), call.out.tokens)
  /\ UNCHANGED <<serverVars, clientVars>>

\* The caller presents once more the refresh token it has just exchanged.
RefreshAgain ==
  /\ HoldsPair
  /\ call.op = "refresh"
  /\ call.nth < MaxUses
  /\ call' = [Call("refresh", call.in, refreshToken(call.in, now, users), call.from)
                EXCEPT !.nth = call.nth + 1]
  /\ UNCHANGED <<serverVars, clientVars>>

\* The caller presents any other body.
RefreshCallWith ==
  /\ call = NoCall
  /\ \E body \in TokenInputs \cup {Null, <<X>>} :
       call' = Call("refresh", body, refreshToken(body, now, users), NoTokens)
  /\ UNCHANGED <<serverVars, clientVars>>

\* A request to a protected route: what the gate does with it.
ProtectCall ==
  /\ call = NoCall
  /\ \E authorization \in HeaderInputs :
       call' = Call("protect", authorization, protect(authorization, now, users), NoTokens)
  /\ UNCHANGED <<serverVars, clientVars>>

\* The caller has its answer and the server is free for the next request.
Return ==
  /\ call # NoCall
  /\ call' = NoCall
  /\ UNCHANGED <<serverVars, clientVars>>

ServerTick ==
  /\ call = NoCall \/ HoldsPair
  /\ Tick

ServerDelete ==
  /\ call = NoCall \/ HoldsPair
  /\ OtherClientDelete

NextServer ==
  \/ ServerTick
  \/ ServerDelete
  \/ Return
  \/ LoginCall
  \/ RefreshCall
  \/ RefreshAgain
  \/ RefreshCallWith
  \/ ProtectCall
  \/ LogoutCall
  \/ AdminOnlyCall

SpecServer == InitServerOnly /\ [][NextServer]_vars

\* ================================ the user routes under arbitrary callers
\* Any HTTP client can register and call the user routes, one request at a
\* time.  `call` keeps the request being answered: the input, the clock and
\* the store it was served with, and what the route did.
RouteCall(op, in, out) ==
  [op |-> op, in |-> in, t |-> now, db |-> users, cts |-> contacts, n |-> created,
   out |-> out]

BAD_EMAIL      == <<"b", "a", "d">>
SHORT_NAME     == <<"A", "B">>
SHORT_PASSWORD == <<"1", "2", "3">>
BAD_PHONE      == <<"1", "2">>

\* Registrations a caller can post, as JSON or as a multipart form: valid, or
\* with an email that is not one, a short name, a short password or no state;
\* with the email or phone of an existing account or new ones.
RegisterRequests ==
  { [ctype |-> c, body |-> Body(f[1], e, ph, f[2], f[3])] :
      c \in {JSON, MULTIPART},
      e \in {Email(1), Email(MaxUsers), BAD_EMAIL},
      ph \in {Phone(1), Phone(MaxUsers)},
      f \in {<<A_NAME, A_PASSWORD, A_STATE>>, <<SHORT_NAME, A_PASSWORD, A_STATE>>,
             <<A_NAME, SHORT_PASSWORD, A_STATE>>, <<A_NAME, A_PASSWORD, Null>>} }

\* Updates a caller can put: a phone, as JSON or as a multipart form.
UpdateRequests ==
  { [ctype |-> c, body |-> [phone |-> ph]] :
      c \in {JSON, MULTIPART}, ph \in {Phone(MaxUsers), BAD_PHONE} }

\* Authorization headers of the callers: none, or the access token a login at
\* clock 0 gave to one of the populated accounts.
CallerHeaders ==
  {Null} \cup {Bearer(generateAccessToken(u, 0)) : u \in {i \in Ids : InitUsers[i] # "absent"}}

\* The route answered: the store is what the route left.
Answered(op, in, out) ==
  /\ call' = RouteCall(op, in, out)
  /\ users' = out.db
  /\ contacts' = out.cts
  /\ created' = out.n
  /\ UNCHANGED <<now, ticks, clientVars>>

RegisterCall ==
  /\ call = NoCall
  /\ \E req \in RegisterRequests :
       LET out == registerRoute(req, now, users, contacts, created) IN
       /\ out.status = 201 => created < MaxUsers
       /\ Answered("register", req, out)

AdminCall ==
  /\ call = NoCall
  /\ \E op \in {"list", "promote", "demote"}, authorization \in CallerHeaders, target \in Ids :
       /\ op = "list" => target = 1
       /\ Answered(op, [authorization |-> authorization, target |-> target],
                   adminRoute(op, authorization, target, now, users, contacts, created))

UpdateCall ==
  /\ call = NoCall
  /\ \E authorization \in CallerHeaders, target \in Ids, req \in UpdateRequests :
       Answered("update", [authorization |-> authorization, target |-> target, req |-> req],
                updateRoute(authorization, target, req, now, users, contacts, created))

\* GET /api/users/profile/me, GET /api/users/:id and POST
\* /api/users/setup-admin with the setup key or another one.
UserCall ==
  /\ call = NoCall
  /\ \E op \in {"profile", "get", "setup"}, authorization \in CallerHeaders, target \in Ids,
        setupKey \in {ADMIN_SETUP_KEY, "guess"} :
       /\ op # "get" => target = 1
       /\ op # "setup" => setupKey = ADMIN_SETUP_KEY
       /\ Answered(op, [authorization |-> authorization, target |-> target,
                        setupKey |-> setupKey],
                   userRoute(op, authorization, target, setupKey, now, users, contacts, created))

DeleteCall ==
  /\ call = NoCall
  /\ \E authorization \in CallerHeaders, target \in Ids :
       Answered("delete", [authorization |-> authorization, target |-> target],
                deleteRoute(authorization, target, now, users, contacts, created))

\* An access-token lifetime passes between two requests.
RouteTick ==
  /\ call = NoCall
  /\ ticks < MaxTicks
  /\ now' = now + AccessTTL
  /\ ticks' = ticks + 1
  /\ UNCHANGED <<users, contacts, created, clientVars, call>>

NextRoutes ==
  \/ RouteTick
  \/ Return
  \/ RegisterCall
  \/ AdminCall
  \/ UpdateCall
  \/ DeleteCall
  \/ UserCall

SpecRoutes == InitServerOnly /\ [][NextRoutes]_vars

\* The event loop runs every continuation, and every HTTP exchange ends with
\* a response or with a network error.
FairSpec ==
  /\ Spec
  /\ \A r \in ReqIds :
       /\ WF_vars(Serve(r) \/ NetworkError(r))
       /\ WF_vars(Receive(r))
       /\ WF_vars(RefreshServe(r) \/ NetworkError(r))
       /\ WF_vars(RefreshReceive(r))

\* =============================================================== claims
\* A step in which the promise of request r settles.
Settles(r) == reqs[r].pc # "done" /\ reqs'[r].pc = "done"

\* C1: a 401 on a request that was not retried yet, with a stored refresh
\* token the server accepts, leads to exactly one refresh exchange and exactly
\* one re-send, and the re-sent request carries the access token the exchange
\* returned.
C1_RefreshThenRetryOnce ==
  \A r \in ReqIds :
    LET q == reqs[r] IN
    /\ q.pc \in {"refreshing", "refreshed"} =>
         q.retry /\ q.refreshes = 1 /\ q.sends = 1 /\ Truthy(q.rt)
    /\ q.exch # NoTokens =>
         /\ q.refreshes = 1
         /\ q.sends = 2
         /\ q.headers = Bearer(q.exch.accessToken)
    /\ q.sends = 2 => q.retry /\ q.refreshes = 1

\* The retry that carried the exchanged access token was answered 200.
C1_Witness ==
  \E r \in ReqIds :
    /\ reqs[r].pc = "replied"
    /\ reqs[r].exch # NoTokens
    /\ reqs[r].sends = 2
    /\ reqs[r].kind = "api"
    /\ reqs[r].resp.status = 200

\* C2: every unrecoverable auth failure of a request to a protected route (in
\* particular the second 401, on the already retried request) ends with the
\* stored session state discarded and the browser sent to /login.
C2_AuthFailureDiscardsSession ==
  [][\A r \in ReqIds :
       (/\ Settles(r)
        /\ reqs[r].kind = "api"
        /\ reqs'[r].outcome = "rejected"
        /\ (reqs'[r].error.of = "refresh" \/ reqs'[r].error.status = 401))
       => (ls' = EmptyLS /\ location' = "/login")]_vars

\* C3: a request is transmitted at most twice and makes at most one refresh
\* exchange; the 401 of the retried request is what the caller gets; and every
\* request that was sent settles.
C3_Bounded ==
  \A r \in ReqIds :
    LET q == reqs[r] IN
    /\ q.sends <= 2
    /\ q.refreshes <= 1
    /\ (q.pc = "done" /\ q.sends = 2 /\ q.outcome = "rejected") =>
         (q.error.of = "request" /\ q.error.attempt = 2)

C3_AtMostOneRetryAndSettles ==
  /\ []C3_Bounded
  /\ \A r \in ReqIds : (reqs[r].pc # "idle") ~> (reqs[r].pc = "done")

\* The retried request got a second 401, which was handed to the caller.
C3_Witness ==
  \E r \in ReqIds :
    /\ reqs[r].pc = "done"
    /\ reqs[r].sends = 2
    /\ reqs[r].outcome = "rejected"
    /\ reqs[r].error = [of |-> "request", status |-> 401, attempt |-> 2]

\* C4: when the refresh exchange fails, the request is not re-sent and no
\* other exchange is made; the session state is cleared, the browser is sent
\* to /login and the caller gets the error of the exchange.
C4_RefreshFailureEndsSession ==
  [][\A r \in ReqIds :
       (/\ reqs[r].pc = "refreshed"
        /\ ~IsSuccess(reqs[r].resp.status)
        /\ reqs'[r] # reqs[r])
       => /\ reqs'[r].pc = "done"
          /\ reqs'[r].outcome = "rejected"
          /\ reqs'[r].error = [of |-> "refresh", status |-> reqs[r].resp.status, attempt |-> 1]
          /\ reqs'[r].sends = 1
          /\ reqs'[r].refreshes = 1
          /\ ls' = EmptyLS
          /\ location' = "/login"]_vars

\* A refresh exchange the server refused has ended the request and the session.
C4_Witness ==
  \E r \in ReqIds :
    /\ reqs[r].pc = "done"
    /\ reqs[r].error.of = "refresh"
    /\ reqs[r].error.status >= 400
    /\ ls = EmptyLS
    /\ location = "/login"

\* C5: a 401 on a request that was not retried yet, with no refresh token in
\* storage: no exchange, no re-send, session state cleared, browser sent to
\* /login, and the caller gets the original 401.
C5_NoRefreshTokenEndsSession ==
  [][\A r \in ReqIds :
       (/\ reqs[r].pc = "replied"
        /\ reqs[r].resp.status = 401
        /\ ~reqs[r].retry
        /\ ~Truthy(ls.refreshToken)
        /\ reqs'[r] # reqs[r])
       => /\ reqs'[r].pc = "done"
          /\ reqs'[r].outcome = "rejected"
          /\ reqs'[r].error = [of |-> "request", status |-> 401, attempt |-> 1]
          /\ reqs'[r].sends = 1
          /\ reqs'[r].refreshes = 0
          /\ ls' = EmptyLS
          /\ location' = "/login"]_vars

\* The first 401 was rejected at once: the flag is set but nothing was exchanged.
C5_Witness ==
  \E r \in ReqIds :
    /\ reqs[r].pc = "done"
    /\ reqs[r].retry
    /\ reqs[r].refreshes = 0
    /\ reqs[r].sends = 1
    /\ reqs[r].error = [of |-> "request", status |-> 401, attempt |-> 1]
    /\ ls = EmptyLS
    /\ location = "/login"

\* The refresh token in the body of a refresh call is one the Token Issuer
\* rejects because it is expired, malformed or signed with another secret.
RefreshTokenRejected(c) ==
  jwt_verify(c.in, JWT_REFRESH_SECRET, c.t).name \in {"TokenExpiredError", "JsonWebTokenError"}

\* The refresh token verifies, and its subject is no longer in the store.
RefreshSubjectGone(c) ==
  LET v == jwt_verify(c.in, JWT_REFRESH_SECRET, c.t) IN
  v.name = "ok" /\ (v.id \notin Ids \/ c.db[v.id] = "absent")

\* C6: POST /auth/refresh answers 401 to an expired, malformed or wrongly
\* signed refresh token and 404 when the subject of a valid token is gone; it
\* returns no pair in either case.
C6_RefreshFailureStatus ==
  (call.op = "refresh" /\ Truthy(call.in)) =>
    /\ RefreshTokenRejected(call) => (call.out.status = 401 /\ call.out.tokens = NoTokens)
    /\ RefreshSubjectGone(call) => (call.out.status = 404 /\ call.out.tokens = NoTokens)

\* C7: a successful refresh exchange returns an access and a refresh token,
\* and the pair differs from the pair the presented refresh token came with,
\* whenever the exchange is made.
C7_RefreshYieldsNewPair ==
  (call.op = "refresh" /\ call.from # NoTokens /\ call.out.status = 200) =>
    /\ Truthy(call.out.tokens.accessToken)
    /\ Truthy(call.out.tokens.refreshToken)
    /\ call.out.tokens # call.from

\* The header is 'Bearer ' followed by a token.
BearerForm(h) == Len(h) >= 3 /\ h[1] = BEARER /\ h[2] = SP /\ h[3] # SP

\* C8: protect answers 401 'no token provided', without verifying a token or
\* asking the User Store, to every request whose Authorization header is
\* absent or not of the form 'Bearer <token>'.
C8_NoBearerFormRejected ==
  (call.op = "protect" /\ ~BearerForm(call.in)) =>
    /\ call.out.status = 401
    /\ call.out.message = "Not authorized, no token provided"
    /\ ~call.out.verified
    /\ ~call.out.queried

\* C9: when verification of the access token fails, protect answers 401 with
\* the message of the failure kind: expired, invalid (malformed or wrongly
\* signed), or the generic one for anything else; verifyRefreshToken names the
\* same three kinds in the error the refresh endpoint reports.
C9_FailureKindMessage ==
  /\ (call.op = "protect" /\ call.out.verified) =>
       LET v == jwt_verify(SplitAt(call.in, SP, 1), JWT_ACCESS_SECRET, call.t) IN
       v.name # "ok" =>
         /\ call.out.status = 401
         /\ ~call.out.next
         /\ call.out.message =
              (IF v.name = "TokenExpiredError" THEN "Access token has expired"
               ELSE IF v.name = "JsonWebTokenError" THEN "Invalid access token"
               ELSE "Token verification failed")
  /\ (call.op = "refresh" /\ Truthy(call.in)) =>
       LET v == jwt_verify(call.in, JWT_REFRESH_SECRET, call.t) IN
       v.name # "ok" =>
         call.out.message =
           (IF v.name = "TokenExpiredError" THEN "Refresh token has expired"
            ELSE IF v.name = "JsonWebTokenError" THEN "Invalid refresh token"
            ELSE "Token verification failed")

\* protect has refused a correctly signed access token whose expiry has passed.
C9_Witness ==
  /\ call.op = "protect"
  /\ call.out.verified
  /\ call.in = Bearer(generateAccessToken(1, 0))
  /\ call.t >= AccessTTL
  /\ call.out.status = 401
  /\ call.out.message = "Access token has expired"

\* The request carries, as 'Bearer <token>', an access token that verifies
\* for subject u.
CarriesValidAccessToken(c, u) ==
  /\ Len(c.in) = 3
  /\ c.in[1] = BEARER
  /\ c.in[2] = SP
  /\ verifyAccessToken(<<c.in[3]>>, c.t).ok
  /\ verifyAccessToken(<<c.in[3]>>, c.t).id = u

\* C10: once a user record is deleted, a protected request that carries that
\* user's unexpired access token is answered 401 'User not found' and reaches
\* no handler.
C10_DeletedUserRejected ==
  \A u \in Ids :
    (/\ call.op = "protect"
     /\ call.db[u] = "absent"
     /\ CarriesValidAccessToken(call, u))
    => /\ call.out.status = 401
       /\ call.out.message = "User not found"
       /\ ~call.out.next
       /\ call.out.user = NoId

\* User 1 was in the store, was deleted, and then its token was presented.
C10_Witness ==
  /\ call.op = "protect"
  /\ InitUsers[1] # "absent"
  /\ call.db[1] = "absent"
  /\ CarriesValidAccessToken(call, 1)
  /\ call.out.status = 401

\* The request carries the access token a login at clock 0 gave to user u,
\* the token has not expired and u's record is in the store: the request is
\* authenticated as u.
AuthenticatedAs(c, u) ==
  /\ c.in.authorization = Bearer(generateAccessToken(u, 0))
  /\ c.t < AccessTTL
  /\ c.db[u] # "absent"

\* The route left the store as it was.
NoEffect(c) == c.out.db = c.db /\ c.out.cts = c.cts /\ c.out.n = c.n

\* C11: on the admin-restricted routes (list users, promote, demote) the
\* handler runs only for a requester authenticated with the role 'admin'; an
\* authenticated requester of another role is answered 403 and the handler
\* does nothing: no listing is returned and no role changes.
C11_AdminRoutesAdminOnly ==
  call.op \in {"list", "promote", "demote"} =>
    /\ call.out.ran => \E u \in Ids : AuthenticatedAs(call, u) /\ call.db[u] = "admin"
    /\ \A u \in Ids :
         (AuthenticatedAs(call, u) /\ call.db[u] # "admin") =>
           /\ call.out.status = 403
           /\ call.out.message = "Access denied. Admin privileges required"
           /\ ~call.out.ran
           /\ NoEffect(call)
           /\ call.out.listed = {}
           /\ users = call.db

\* The populated admin was demoted, and its next demote request was refused.
C11_Witness ==
  /\ call.op = "demote"
  /\ InitUsers[2] = "admin"
  /\ AuthenticatedAs(call, 2)
  /\ call.db[2] = "user"
  /\ call.in.target = 1
  /\ call.db[1] = "admin"
  /\ call.out.status = 403
  /\ users[1] = "admin"

\* The result of a verification that returned the payload of subject id.
Decoded(id) == [ok |-> TRUE, id |-> id, error |-> NoError]

\* C12: for every id, the access token of generateTokens verifies under
\* verifyAccessToken and the refresh token under verifyRefreshToken, from the
\* moment of issue until it expires, each returning that id; an access token
\* is rejected by verifyRefreshToken and a refresh token by verifyAccessToken
\* at every moment, so the refresh endpoint returns no pair for an access
\* token and the gate lets no request through for a refresh token.
C12_PairVerifiesCrossRejected ==
  /\ \A id \in Ids, t0 \in IssueTimes :
       LET pair == generateTokens(id, t0) IN
       /\ verifyAccessToken(pair.accessToken, t0) = Decoded(id)
       /\ verifyRefreshToken(pair.refreshToken, t0) = Decoded(id)
       /\ now < t0 + AccessTTL => verifyAccessToken(pair.accessToken, now) = Decoded(id)
       /\ now < t0 + RefreshTTL => verifyRefreshToken(pair.refreshToken, now) = Decoded(id)
       /\ ~verifyRefreshToken(pair.accessToken, now).ok
       /\ ~verifyAccessToken(pair.refreshToken, now).ok
  /\ HoldsPair =>
       /\ verifyAccessToken(call.out.tokens.accessToken, call.t).ok
       /\ verifyRefreshToken(call.out.tokens.refreshToken, call.t).ok
       /\ verifyAccessToken(call.out.tokens.accessToken, call.t).id
            = verifyRefreshToken(call.out.tokens.refreshToken, call.t).id
       /\ call.op = "login" =>
            verifyAccessToken(call.out.tokens.accessToken, call.t).id = call.out.user
  /\ \A id \in Ids, t0 \in IssueTimes :
       /\ (call.op = "refresh" /\ call.in = generateAccessToken(id, t0)) =>
            (~IsSuccess(call.out.status) /\ call.out.tokens = NoTokens)
       /\ (call.op = "protect" /\ call.in = Bearer(generateRefreshToken(id, t0))) =>
            (call.out.status = 401 /\ ~call.out.next)

\* The refresh endpoint was given the access token of a pair issued a second
\* ago to an account in the store, and refused it.
C12_Witness ==
  /\ call.op = "refresh"
  /\ now = 1
  /\ call.in = generateTokens(2, 0).accessToken
  /\ verifyAccessToken(call.in, now) = Decoded(2)
  /\ call.db[2] # "absent"
  /\ ~IsSuccess(call.out.status)
  /\ call.out.tokens = NoTokens

\* C13: a refresh token stays usable after it has been exchanged: whenever
\* POST /auth/refresh is given a correctly signed refresh token that has not
\* expired and whose subject is in the store, it answers 200 with a pair,
\* however many times the token was presented before and whatever pairs those
\* exchanges returned.
C13_RefreshTokenReusable ==
  call.op = "refresh" =>
    LET v == jwt_verify(call.in, JWT_REFRESH_SECRET, call.t) IN
    (v.name = "ok" /\ v.id \in Ids /\ call.db[v.id] # "absent") =>
      /\ call.out.status = 200
      /\ Truthy(call.out.tokens.accessToken)
      /\ Truthy(call.out.tokens.refreshToken)
      /\ verifyRefreshToken(call.out.tokens.refreshToken, call.t) = Decoded(v.id)

\* The refresh token of a login at clock 0 was honored a third time, after an
\* exchange had already returned a newer refresh token for it.
C13_Witness ==
  /\ call.op = "refresh"
  /\ call.nth = 3
  /\ call.in = generateRefreshToken(1, 0)
  /\ call.from = generateTokens(1, 0)
  /\ call.t > 0
  /\ call.out.status = 200
  /\ call.out.tokens.refreshToken # call.in

\* C14: when a login or a registration made through the Session Client
\* succeeds, the three stored fields (accessToken, refreshToken, userId) become
\* those of the response, whatever was stored before, and the in-memory user
\* is the user of the response.
C14_LoginReplacesSession ==
  [][\A r \in ReqIds :
       (/\ reqs[r].pc = "replied"
        /\ reqs[r].kind \in {"login", "register"}
        /\ IsSuccess(reqs[r].resp.status)
        /\ reqs'[r] # reqs[r])
       => /\ ls' = [accessToken |-> reqs[r].resp.tokens.accessToken,
                    refreshToken |-> reqs[r].resp.tokens.refreshToken,
                    userId |-> reqs[r].resp.user]
          /\ Truthy(ls'.accessToken)
          /\ Truthy(ls'.refreshToken)
          /\ ls'.userId \in Ids
          /\ ls'.accessToken[1].id = ls'.userId
          /\ ls'.refreshToken[1].id = ls'.userId
          /\ user' = ls'.userId
          /\ reqs'[r].outcome = "resolved"]_vars

\* A registration succeeded, and the stored session is the one of the account
\* it created.
C14_Witness ==
  \E r \in ReqIds :
    /\ reqs[r].pc = "done"
    /\ reqs[r].kind = "register"
    /\ reqs[r].outcome = "resolved"
    /\ ls.userId \in Ids
    /\ InitUsers[ls.userId] = "absent"
    /\ users[ls.userId] = "user"
    /\ verifyAccessToken(ls.accessToken, now) = Decoded(ls.userId)
    /\ verifyRefreshToken(ls.refreshToken, now) = Decoded(ls.userId)
    /\ user = ls.userId

\* C15: logout can be taken in every state, whatever the tokens and whatever
\* requests are in flight; in that one step the stored session state and the
\* in-memory user are cleared, no request is sent or awaited, and nothing else
\* changes.
C15_LogoutClearsUnconditionally ==
  /\ [](ENABLED logout)
  /\ [][logout =>
         /\ ls' = EmptyLS
         /\ user' = NoId
         /\ reqs' = reqs
         /\ location' = location
         /\ UNCHANGED <<serverVars, call>>]_vars

\* A login had stored a session and set the user; logout cleared both, and the
\* browser was not sent to /login.
C15_Witness ==
  \E r \in ReqIds :
    /\ reqs[r].pc = "done"
    /\ reqs[r].kind = "login"
    /\ reqs[r].outcome = "resolved"
    /\ ls = EmptyLS
    /\ user = NoId
    /\ location = "/profile"

\* Some record of the store has the email of the registration.
EmailTaken(c) == \E i \in Ids : c.db[i] # "absent" /\ c.cts[i].email = c.in.body.email

\* Some record of the store has the phone of the registration.
PhoneTaken(c) == \E i \in Ids : c.db[i] # "absent" /\ c.cts[i].phone = c.in.body.phone

C17_InvalidRegistrationRejected ==
  (call.op = "register" /\ ~registerSchema(call.in.body)) =>
    /\ call.out.status = 400
    /\ ~call.out.ran
    /\ NoEffect(call)

\* C18: DELETE /users/:id removes the target record only for a requester
\* authenticated as that user or as an admin; any other authenticated
\* requester is answered 403 and the target record stays in the store.
C18_DeleteOwnerOrAdmin ==
  call.op = "delete" =>
    LET target == call.in.target IN
    /\ (call.db[target] # "absent" /\ users[target] = "absent") =>
         \E u \in Ids : AuthenticatedAs(call, u) /\ (u = target \/ call.db[u] = "admin")
    /\ \A u \in Ids :
         (/\ AuthenticatedAs(call, u)
          /\ u # target
          /\ call.db[u] # "admin"
          /\ call.db[target] # "absent")
         => /\ call.out.status = 403
            /\ NoEffect(call)
            /\ users[target] = call.db[target]
            /\ contacts[target] = call.cts[target]
    /\ \A i \in Ids : i # target => (users[i] = call.db[i] /\ contacts[i] = call.cts[i])

\* The populated regular user asked to delete the admin and was refused.
C18_Witness ==
  /\ call.op = "delete"
  /\ AuthenticatedAs(call, 1)
  /\ call.db[1] = "user"
  /\ call.in.target = 2
  /\ call.db[2] = "admin"
  /\ call.out.status = 403
  /\ users[2] = "admin"

\* C19: PUT /users/:id changes a user record only when the requester is
\* authenticated as that user or as an admin.
C19_UpdateOwnerOrAdmin ==
  (call.op = "update" /\ contacts # call.cts) =>
    \E u \in Ids :
      /\ AuthenticatedAs(call, u)
      /\ (u = call.in.target \/ call.db[u] = "admin")

\* C20: the refresh endpoint hands the holder of a refresh token no refresh
\* token that outlives the one presented, so a refresh token alone cannot
\* extend access beyond its own expiry.
C20_RefreshDoesNotExtend ==
  (call.op = "refresh" /\ call.out.status = 200) =>
    \/ ~Truthy(call.out.tokens.refreshToken)
    \/ call.out.tokens.refreshToken[1].exp <= call.in[1].exp

\* ------------------------------------------------ concurrent requests
\* The request has been re-sent after its own refresh exchange and is on its
\* way or answered.
Retried(q) == q.pc \in {"sent", "replied"} /\ q.exch # NoTokens

\* C21: under any interleaving of concurrent requests, the request re-sent
\* after a refresh carries the access token its own refresh exchange
\* returned, and no request performs more than one exchange.
C21_RetryCarriesOwnToken ==
  \A r \in ConcIds :
    /\ reqs[r].refreshes <= 1
    /\ Retried(reqs[r]) =>
         /\ reqs[r].sends = 2
         /\ reqs[r].refreshes = 1
         /\ reqs[r].headers = Bearer(reqs[r].exch.accessToken)

\* Two requests were re-sent after exchanges that returned different pairs;
\* storage holds the pair of one of them, each carries its own.
C21_Witness ==
  \E r \in ConcIds, s \in ConcIds :
    /\ Retried(reqs[r]) /\ Retried(reqs[s])
    /\ reqs[r].exch.accessToken # reqs[s].exch.accessToken
    /\ ls.accessToken = reqs[s].exch.accessToken
    /\ reqs[r].headers = Bearer(reqs[r].exch.accessToken)
    /\ reqs[s].headers = Bearer(reqs[s].exch.accessToken)

\* The access and refresh token in storage, as a pair.
StoredPair == [accessToken |-> ls.accessToken, refreshToken |-> ls.refreshToken]

\* C22: a request that receives a 401 while a refresh token is stored starts
\* its own refresh exchange whatever the other requests are doing; every
\* retry carries an access token the gate's verification accepts until it
\* expires; and once every request has been re-sent, storage holds the whole
\* pair one of the exchanges returned (or nothing, after a logout).
C22_IndependentExchanges ==
  /\ [][\A r \in ConcIds :
          (/\ reqs[r].pc = "replied"
           /\ reqs'[r] # reqs[r]
           /\ reqs[r].resp.status = 401
           /\ ~reqs[r].retry
           /\ Truthy(ls.refreshToken))
          => /\ reqs'[r].pc = "refreshing"
             /\ reqs'[r].rt = ls.refreshToken
             /\ reqs'[r].refreshes = 1]_vars
  /\ [](\A r \in ConcIds :
          (Retried(reqs[r]) /\ now < reqs[r].exch.accessToken[1].exp) =>
            verifyAccessToken(SplitAt(reqs[r].headers, SP, 1), now).ok)
  /\ []((\A r \in ConcIds : Retried(reqs[r])) =>
          \/ \E r \in ConcIds : StoredPair = reqs[r].exch
          \/ StoredPair = NoTokens)

\* Every request was answered 401 for the expired access token, presented
\* the same stored refresh token in an exchange of its own and was re-sent
\* with a token that verifies; storage holds the pair of an exchange.
C22_Witness ==
  /\ \A q \in ConcIds :
       /\ Retried(reqs[q])
       /\ reqs[q].kind = "api"
       /\ reqs[q].refreshes = 1
       /\ reqs[q].rt = generateRefreshToken(1, 0)
       /\ verifyAccessToken(SplitAt(reqs[q].headers, SP, 1), now).ok
  /\ \E s \in ConcIds : StoredPair = reqs[s].exch

\* C23: in every reachable client state the stored access and refresh token
\* are both absent, or are the two tokens of one issued pair (same subject,
\* same issue time), under any interleaving of login, register, refresh and
\* logout.
C23_StoredPairWhole ==
  \/ StoredPair = NoTokens
  \/ /\ Truthy(ls.accessToken)
     /\ Truthy(ls.refreshToken)
     /\ StoredPair = generateTokens(ls.accessToken[1].id, ls.accessToken[1].iat)

\* A login as another user replaced the pair a refresh exchange had stored
\* while the request re-sent after that exchange is still under way.
C23_Witness ==
  \E r \in ConcIds :
    /\ Retried(reqs[r])
    /\ StoredPair # NoTokens
    /\ ls.accessToken[1].id # reqs[r].exch.accessToken[1].id
    /\ StoredPair = generateTokens(ls.userId, ls.accessToken[1].iat)

\* C26: a login made through the Session Client that the server refuses with
\* 401 leaves the stored session as it was, starts no refresh exchange, is not
\* re-sent and forces no navigation: the caller just gets the rejection.
C26_RefusedLoginInert ==
  [][\A r \in ReqIds :
       (/\ reqs[r].kind = "login"
        /\ reqs[r].pc = "replied"
        /\ reqs[r].resp.status = 401
        /\ reqs[r].sends = 1
        /\ reqs'[r] # reqs[r])
       => /\ ls' = ls
          /\ location' = location
          /\ reqs'[r].pc = "done"
          /\ reqs'[r].refreshes = 0]_vars

\* Storage holds neither token.
NoStoredToken == ~Truthy(ls.accessToken) /\ ~Truthy(ls.refreshToken)

\* C27: once storage has been cleared (logout, or the discard after a failed
\* refresh), it holds no access or refresh token again until a login or a
\* registration succeeds, even when a refresh exchange that started before
\* the clearing completes after it.
C27_ClearedStaysCleared ==
  [][(NoStoredToken /\ ~NoStoredToken') =>
       \E r \in ReqIds :
         /\ reqs[r].kind \in {"login", "register"}
         /\ reqs[r].pc = "replied"
         /\ IsSuccess(reqs[r].resp.status)
         /\ reqs'[r].pc = "done"
         /\ reqs'[r].outcome = "resolved"]_vars

\* C28: whenever storage holds both a userId and an access token, the subject
\* of the access token is that userId, after any interleaving of login,
\* register, refresh-on-401 and logout.
C28_TokenSubjectIsUserId ==
  (ls.userId # NoId /\ Truthy(ls.accessToken)) => ls.accessToken[1].id = ls.userId

\* The routes mounted under /api/users.
UserRouteOps == {"list", "promote", "demote", "update", "delete", "profile", "get", "setup"}

\* C24: on every /api/users route protect is the first stage and is entered
\* once; a request that is not authenticated is answered 401 by it, and no
\* later stage (role check, upload, validation, controller) is entered and
\* nothing of the store is returned or changed.
C24_ProtectFirst ==
  call.op \in UserRouteOps =>
    /\ Len(call.out.stages) >= 1
    /\ call.out.stages[1] = "protect"
    /\ \A i \in 2..Len(call.out.stages) : call.out.stages[i] # "protect"
    /\ (~\E u \in Ids : AuthenticatedAs(call, u)) =>
         /\ call.out.status = 401
         /\ call.out.stages = <<"protect">>
         /\ ~call.out.ran
         /\ NoEffect(call)
         /\ call.out.user = NoId
         /\ call.out.listed = {}
         /\ users = call.db /\ contacts = call.cts

\* An update with a phone that fails validation, sent with an expired access
\* token: the gate answered, validation never looked at the body.
C24_Witness ==
  /\ call.op = "update"
  /\ call.in.req.ctype = JSON
  /\ call.in.req.body.phone = BAD_PHONE
  /\ call.in.authorization = Bearer(generateAccessToken(1, 0))
  /\ call.t >= AccessTTL
  /\ call.out.status = 401
  /\ call.out.message = "Access token has expired"
  /\ call.out.stages = <<"protect">>

\* C25: login, refresh, logout, protect and adminOnly never create, modify or
\* delete a User Store record: the store after each of them, on success and
\* on every failure, is the store before it.
C25_AuthCoreLeavesStore ==
  [][(call' # call /\ call' # NoCall
        /\ call'.op \in {"login", "refresh", "logout", "protect", "adminOnly"})
       => /\ users' = users
          /\ contacts' = contacts
          /\ created' = created
          /\ call'.db = users]_vars

\* A login with a wrong password for an existing account was answered 401
\* and the account is as it was.
C25_Witness ==
  /\ call.op = "login"
  /\ call.in = <<1, FALSE>>
  /\ call.out.status = 401
  /\ users = InitUsers
  /\ contacts = InitContacts

\* C29: admin authorization follows the role the User Store holds when the
\* request is served, not the role at token issuance.  promoteToAdmin,
\* demoteFromAdmin and setupAdmin write the role into the store; an admin-only
\* request made with an unexpired access token is answered 403 exactly when
\* the store's role of its subject is not 'admin' at that moment, whatever
\* the role was when the token was issued.
C29_RoleAtRequestTime ==
  /\ (call.op = "demote" /\ call.out.status = 200) => users[call.in.target] = "user"
  /\ (call.op = "promote" /\ call.out.status = 200) => users[call.in.target] = "admin"
  /\ (call.op = "setup" /\ call.out.status = 200) =>
       \E u \in Ids : AuthenticatedAs(call, u) /\ users[u] = "admin"
  /\ call.op \in {"list", "promote", "demote"} =>
       \A u \in Ids :
         AuthenticatedAs(call, u) =>
           /\ (call.db[u] # "admin") <=> (call.out.status = 403)
           /\ (call.db[u] = "admin") <=> (Len(call.out.stages) > 2)

\* The account that was admin when its token was issued has been demoted and
\* asks for the user list with the same token: 403.
C29_Witness ==
  /\ call.op = "list"
  /\ AuthenticatedAs(call, 2)
  /\ InitUsers[2] = "admin"
  /\ call.db[2] = "user"
  /\ call.out.status = 403

\* C30: in every reachable state of the User Store no two user records share
\* an email and no two share a phone.
C30_ContactsUnique ==
  \A i \in Ids, j \in Ids :
    (i # j /\ users[i] # "absent" /\ users[j] # "absent") =>
      /\ contacts[i].email # contacts[j].email
      /\ contacts[i].phone # contacts[j].phone

====
